---- MODULE Spec2Model ----
(***************************************************************************)
(* mini-monitor server (src/server.js): the history buffer systemHistory   *)
(* with its startup load and saveHistory, the two collectors               *)
(* monitorContainers and monitorSystem, the interval update loop and the   *)
(* socket.io connection handler.                                           *)
(*                                                                         *)
(* Node runs every callback to completion, so each action below is one     *)
(* callback of the event loop together with the microtasks it triggers:    *)
(* a timer firing, a connection, the completion of an awaited request.     *)
(***************************************************************************)
EXTENDS Integers, Sequences, FiniteSets, TLC

(***************************************************************************)
(* Bounds of the model.                                                    *)
(***************************************************************************)
\* Capacity of the history buffer.  src/server.js:138 sets 14400; the model
\* runs the same push/shift code with a small capacity.
MAX_HISTORY == 2
\* Collection rounds (timer ticks plus connections) started in all.
MaxRounds == 2
\* Process runs (the first start plus restarts).
MaxBoots == 2
\* Largest value Date.now() takes.
MaxClock == 2
\* Sockets that may connect.
MaxSubs == 2

Subscribers == 1..MaxSubs

(***************************************************************************)
(* JavaScript values.  An optional value (null / undefined / absent field) *)
(* is the empty sequence, a present value v is <<v>>.                      *)
(***************************************************************************)
None == <<>>
Some(v) == <<v>>
IsSome(o) == o # <<>>
\* `o || d` for a numeric o: null, undefined and 0 all give d.
OrElse(o, d) == IF o = <<>> THEN d ELSE IF o[1] = 0 THEN d ELSE o[1]

\* The value of the variable systemHistory: an array of records, or one of the
\* other JSON values JSON.parse can return.
JSArray(items) == [kind |-> "array", items |-> items]
JSNull == [kind |-> "null", items |-> <<>>]
JSObject == [kind |-> "object", items |-> <<>>]
JSNumber == [kind |-> "number", items |-> <<>>]
JSString == [kind |-> "string", items |-> <<>>]
IsArray(v) == v.kind = "array"

(***************************************************************************)
(* Number.prototype.toFixed for a non-negative number given in tenths.     *)
(***************************************************************************)
ToFixed1(tenths) == ToString(tenths \div 10) \o "." \o ToString(tenths % 10)

(***************************************************************************)
(* What the host-information queries of one monitorSystem round return.    *)
(***************************************************************************)
Queries == {"cpu", "mem", "osInfo", "currentLoad", "cpuTemperature", "networkStats"}

Iface(rx, tx) == [rx_sec |-> rx, tx_sec |-> tx]

\* load: currentLoad.currentLoad in tenths of a percent; tempMain: temp.main;
\* memTotal / memActive: mem.total / mem.active; netStats: the interface list.
HostSamples ==
  { [load |-> 125, tempMain |-> None, memTotal |-> 8, memActive |-> 2,
     netStats |-> <<Iface(None, None)>>],
    [load |-> 500, tempMain |-> Some(61), memTotal |-> 8, memActive |-> 4,
     netStats |-> <<Iface(Some(3), Some(1)), Iface(Some(4), Some(2))>>] }

\* The host at time t: its readings alternate between the two samples.
HostAt(t) == CHOOSE s \in HostSamples : (s.load = 125) = (t % 2 = 0)

RECURSIVE SumRx(_)
SumRx(ifaces) ==
  IF ifaces = <<>> THEN 0
  ELSE (IF IsSome(Head(ifaces).rx_sec) THEN Head(ifaces).rx_sec[1] ELSE 0) + SumRx(Tail(ifaces))

RECURSIVE SumTx(_)
SumTx(ifaces) ==
  IF ifaces = <<>> THEN 0
  ELSE (IF IsSome(Head(ifaces).tx_sec) THEN Head(ifaces).tx_sec[1] ELSE 0) + SumTx(Tail(ifaces))

\* The record monitorSystem builds from one gather at time t.  The identity
\* strings (manufacturer, brand, platform, ...) are copied through unchanged
\* and are left out; memTotal divides 100 * memActive in every sample.
HostStats(s, t) ==
  [timestamp |-> t,
   usage |-> ToFixed1(s.load),
   temp |-> OrElse(s.tempMain, 0),
   percent |-> (s.memActive * 100) \div s.memTotal,
   rx |-> SumRx(s.netStats),
   tx |-> SumTx(s.netStats)]

(***************************************************************************)
(* JSON.stringify and JSON.parse on the history.  A text is a sequence of  *)
(* tokens; a record is written as "{" key value ... "}".                   *)
(***************************************************************************)
RecordKeys == <<"timestamp", "usage", "temp", "percent", "rx", "tx">>
RecordTokens == 2 + 2 * Len(RecordKeys)
Quote(s) == "\"" \o s \o "\""

\* StringifyRecord with the values of temp and percent exchanged.
StringifyRecordSwapped(r) ==
  <<"{", "timestamp", ToString(r.timestamp), "usage", Quote(r.usage),
    "temp", ToString(r.percent), "percent", ToString(r.temp),
    "rx", ToString(r.rx), "tx", ToString(r.tx), "}">>

StringifyRecord(r) ==
  <<"{", "timestamp", ToString(r.timestamp), "usage", Quote(r.usage),
    "temp", ToString(r.temp), "percent", ToString(r.percent),
    "rx", ToString(r.rx), "tx", ToString(r.tx), "}">>

RECURSIVE StringifyItems(_)
StringifyItems(items) ==
  IF items = <<>> THEN <<>>
  ELSE IF Len(items) = 1 THEN StringifyRecord(items[1])
  ELSE StringifyRecord(items[1]) \o <<",">> \o StringifyItems(Tail(items))

JSONstringify(v) ==
  CASE v.kind = "array" -> <<"[">> \o StringifyItems(v.items) \o <<"]">>
    [] v.kind = "null" -> <<"null">>
    [] v.kind = "object" -> <<"{", "}">>
    [] v.kind = "number" -> <<"5">>
    [] v.kind = "string" -> <<Quote("abc")>>

\* Numbers and strings a record of the model can hold.
MaxNumber == 100
NumberLiterals == 0..MaxNumber
IsNumberToken(tok) == \E n \in NumberLiterals : ToString(n) = tok
ParseNumber(tok) == CHOOSE n \in NumberLiterals : ToString(n) = tok
StringLiterals == {ToFixed1(s.load) : s \in HostSamples}
IsStringToken(tok) == \E s \in StringLiterals : Quote(s) = tok
ParseString(tok) == CHOOSE s \in StringLiterals : Quote(s) = tok

\* toks is the text of one record.
IsRecordText(toks) ==
  /\ Len(toks) = RecordTokens
  /\ toks[1] = "{" /\ toks[RecordTokens] = "}"
  /\ \A i \in 1..Len(RecordKeys) : toks[2 * i] = RecordKeys[i]
  /\ IsNumberToken(toks[3]) /\ IsStringToken(toks[5]) /\ IsNumberToken(toks[7])
  /\ IsNumberToken(toks[9]) /\ IsNumberToken(toks[11]) /\ IsNumberToken(toks[13])

ParseRecord(toks) ==
  [timestamp |-> ParseNumber(toks[3]), usage |-> ParseString(toks[5]),
   temp |-> ParseNumber(toks[7]), percent |-> ParseNumber(toks[9]),
   rx |-> ParseNumber(toks[11]), tx |-> ParseNumber(toks[13])]

\* toks is a comma-separated list of n >= 1 record texts.
RECURSIVE IsItemsText(_)
IsItemsText(toks) ==
  /\ Len(toks) >= RecordTokens
  /\ IsRecordText(SubSeq(toks, 1, RecordTokens))
  /\ \/ Len(toks) = RecordTokens
     \/ /\ Len(toks) > RecordTokens + 1
        /\ toks[RecordTokens + 1] = ","
        /\ IsItemsText(SubSeq(toks, RecordTokens + 2, Len(toks)))

RECURSIVE ParseItems(_)
ParseItems(toks) ==
  IF Len(toks) = RecordTokens THEN <<ParseRecord(toks)>>
  ELSE <<ParseRecord(SubSeq(toks, 1, RecordTokens))>>
         \o ParseItems(SubSeq(toks, RecordTokens + 2, Len(toks)))

SyntaxError == [kind |-> "SyntaxError", items |-> <<>>]

\* JSON.parse: the value of a text, or SyntaxError when it throws.
JSONparse(toks) ==
  CASE toks = <<"null">> -> JSNull
    [] toks = <<"{", "}">> -> JSObject
    [] toks = <<"5">> -> JSNumber
    [] toks = <<Quote("abc")>> -> JSString
    [] toks = <<"[", "]">> -> JSArray(<<>>)
    [] /\ Len(toks) > 2
       /\ toks[1] = "[" /\ toks[Len(toks)] = "]"
       /\ IsItemsText(SubSeq(toks, 2, Len(toks) - 1))
         -> JSArray(ParseItems(SubSeq(toks, 2, Len(toks) - 1)))
    [] OTHER -> SyntaxError

(***************************************************************************)
(* The durable file history.json.                                          *)
(***************************************************************************)
Absent == [exists |-> FALSE, text |-> <<>>]
FileOf(toks) == [exists |-> TRUE, text |-> toks]


\* An array text as an earlier run of the server leaves it: n records.
RecordsOfLength(n) == [i \in 1..n |-> HostStats(HostAt(0), 0)]

\* What the first startup load can find: no file, a cut-off file, JSON that is
\* no array, a full buffer an earlier run saved, and an array of MAX_HISTORY+1
\* records (a file is not bound to the capacity this build was given).
FileChoices ==
  {Absent, FileOf(<<"[", "{", "timestamp">>)}
    \cup {FileOf(JSONstringify(v)) : v \in {JSNull, JSObject, JSNumber, JSString}}
    \cup {FileOf(JSONstringify(JSArray(RecordsOfLength(n)))) : n \in {MAX_HISTORY, MAX_HISTORY + 1}}

(***************************************************************************)
(* State.                                                                  *)
(***************************************************************************)
VARIABLES
  running,        \* the process is up
  boots,          \* process runs so far
  file,           \* history.json
  systemHistory,  \* let systemHistory (server.js:139)
  now,            \* the last value Date.now() returned
  started,        \* collection rounds started so far, over all runs
  rounds,         \* collection rounds of this run: who started each
  sys,            \* rounds[i]'s monitorSystem invocation
  cont,           \* rounds[i]'s monitorContainers invocation
  connected,      \* sockets connected
  inbox,          \* events delivered to each socket, in order
  loadedFrom,     \* history: the file the startup load of this run found
  appended,       \* history: records pushed by this run, in order
  saved,          \* history: the buffer written by the last successful save
  connHist,       \* history: systemHistory when each socket connected
  lastWrite,      \* history: the last saveHistory call: who made it, how the
                  \* write ended, how many records this run had appended
  lastContainers, \* history: the last containers event published, with what
                  \* the runtime answered in its round
  probe,          \* a stats payload handed to the derivation functions alone
  derived,        \* what the three functions returned for it
  client          \* the page behind each socket (public/app.js): its
                  \* systemHistory, and how many delivered events it handled

vars == <<running, boots, file, systemHistory, now, started, rounds, sys, cont,
          connected, inbox, loadedFrom, appended, saved, connHist, lastWrite,
          lastContainers, probe, derived, client>>

(***************************************************************************)
(* server.js:139-154: let systemHistory = []; then the startup load.  The  *)
(* assignment happens before the console.log that reads .length, so a      *)
(* TypeError of that read (null has no length) is caught after the         *)
(* assignment took effect.                                                 *)
(***************************************************************************)
StartupLoad(f) ==
  IF ~f.exists THEN JSArray(<<>>)
  ELSE LET raw == f.text
           parsed == JSONparse(raw)
       IN IF parsed = SyntaxError THEN JSArray(<<>>) ELSE parsed

NoWrite == [by |-> "none", outcome |-> "none", at |-> 0]
NoContainers == [published |-> FALSE, list |-> <<>>, req |-> <<>>, event |-> <<>>]

\* A process run begins with no round started and no socket connected; the
\* same values stand for the memory of a process that has exited.
FreshMemory ==
  /\ rounds' = <<>> /\ sys' = <<>> /\ cont' = <<>>
  /\ connected' = {}
  /\ inbox' = [s \in Subscribers |-> <<>>]
  /\ connHist' = [s \in Subscribers |-> JSArray(<<>>)]
  /\ appended' = <<>>
  /\ lastContainers' = NoContainers

\* process.exit().
Exited ==
  /\ running' = FALSE
  /\ systemHistory' = JSArray(<<>>)
  /\ FreshMemory

InitServer ==
  /\ file \in FileChoices
  /\ running = TRUE
  /\ boots = 1
  /\ systemHistory = StartupLoad(file)
  /\ loadedFrom = file
  /\ now = 0
  /\ started = 0
  /\ rounds = <<>> /\ sys = <<>> /\ cont = <<>>
  /\ connected = {}
  /\ inbox = [s \in Subscribers |-> <<>>]
  /\ connHist = [s \in Subscribers |-> JSArray(<<>>)]
  /\ appended = <<>>
  /\ saved = None
  /\ lastWrite = NoWrite
  /\ lastContainers = NoContainers

\* public/app.js:55 let systemHistory = [], in the page behind each socket.
NoClient == [s \in Subscribers |-> [systemHistory |-> JSArray(<<>>), handled |-> 0]]

\* The server, no payload under derivation on its own.
Init == InitServer /\ probe = None /\ derived = None /\ client = NoClient

\* node server.js again after the process ended.
Startup ==
  /\ ~running
  /\ boots < MaxBoots
  /\ boots' = boots + 1
  /\ running' = TRUE
  /\ systemHistory' = StartupLoad(file)
  /\ loadedFrom' = file
  /\ FreshMemory
  /\ UNCHANGED <<file, now, started, saved, lastWrite, probe, derived, client>>

(***************************************************************************)
(* server.js:157-163 saveHistory.  writeFileSync either writes the whole   *)
(* text or throws; a throw leaves the old file or a file cut to nothing.   *)
(***************************************************************************)
WriteOutcomes == {"written", "failed", "truncated"}

saveHistory(outcome) ==
  /\ file' = CASE outcome = "written" -> FileOf(JSONstringify(systemHistory))
               [] outcome = "truncated" -> FileOf(<<>>)
               [] OTHER -> file
  /\ saved' = CASE outcome = "written" -> Some(systemHistory)
                [] outcome = "truncated" -> None
                [] OTHER -> saved

\* FlushTimer with saveHistory's catch taken away: a write that throws ends
\* the process.
FlushTimerUncaught ==
  /\ running
  /\ \E outcome \in WriteOutcomes :
       /\ saveHistory(outcome)
       /\ lastWrite' = [by |-> "timer", outcome |-> outcome, at |-> Len(appended)]
       /\ IF outcome = "written"
          THEN UNCHANGED <<running, systemHistory, rounds, sys, cont, connected, inbox,
                           appended, connHist, lastContainers>>
          ELSE Exited
  /\ UNCHANGED <<boots, now, started, loadedFrom, probe, derived, client>>

\* server.js:166 setInterval(saveHistory, 60000)
FlushTimer ==
  /\ running
  /\ \E outcome \in WriteOutcomes :
       /\ saveHistory(outcome)
       /\ lastWrite' = [by |-> "timer", outcome |-> outcome, at |-> Len(appended)]
  /\ UNCHANGED <<running, boots, systemHistory, now, started, rounds, sys, cont,
                 connected, inbox, loadedFrom, appended, connHist, lastContainers,
                 probe, derived, client>>

\* Signal with process.exit() ahead of saveHistory(): nothing is written.
SignalExitsFirst ==
  /\ running
  /\ Exited
  /\ UNCHANGED <<boots, file, now, started, loadedFrom, saved, lastWrite, probe, derived,
                 client>>

\* server.js:169-170 SIGINT / SIGTERM: saveHistory(); process.exit().  With a
\* write that fails and leaves the file alone, this is also what a process
\* killed without warning leaves behind.
Signal ==
  /\ running
  /\ \E outcome \in WriteOutcomes :
       /\ saveHistory(outcome)
       /\ lastWrite' = [by |-> "signal", outcome |-> outcome, at |-> Len(appended)]
  /\ Exited
  /\ UNCHANGED <<boots, now, started, loadedFrom, probe, derived, client>>

(***************************************************************************)
(* Subscription channel.                                                   *)
(***************************************************************************)
Event(name, payload) == [name |-> name, payload |-> payload]

\* io.emit: to every connected socket.
IoEmit(box, ev) ==
  [s \in Subscribers |-> IF s \in connected THEN Append(box[s], ev) ELSE box[s]]

\* socket.emit: to one socket.
SocketEmit(box, s, ev) == [box EXCEPT ![s] = Append(@, ev)]


(***************************************************************************)
(* Metric derivation (server.js:29-86).  A JavaScript number that a        *)
(* division produced is kept as the exact fraction num/den; den = 0 stands *)
(* for the non-finite results: 0/0 is NaN, n/0 is +-Infinity.              *)
(***************************************************************************)
Frac(n, d) == [num |-> n, den |-> d]
Num(n) == Frac(n, 1)
NaN == Frac(0, 0)
IsFinite(f) == f.den # 0
\* a + b where b is an optional number: adding undefined gives NaN.
AddOpt(a, b) == IF ~IsFinite(a) \/ b = None THEN NaN ELSE Num(a.num + b[1])

Digits2(n) == IF n < 10 THEN "0" \o ToString(n) ELSE ToString(n)
Abs(n) == IF n < 0 THEN -n ELSE n
\* Number.prototype.toFixed(2): the nearest hundredth, written out.
ToFixed2(f) ==
  IF f.den = 0
  THEN (IF f.num = 0 THEN "NaN" ELSE IF f.num > 0 THEN "Infinity" ELSE "-Infinity")
  ELSE LET neg == (f.num < 0) # (f.den < 0)
           h == (2 * Abs(f.num) * 100 + Abs(f.den)) \div (2 * Abs(f.den))
       IN (IF neg /\ h # 0 THEN "-" ELSE "") \o ToString(h \div 100) \o "." \o Digits2(h % 100)

\* A raw stats payload.  Every field is optional; the nested objects
\* cpu_stats, precpu_stats, memory_stats are absent when their fields are.
RawStats(ct, pct, sy, psy, on, pl, mu, mc, ml, bl, pi) ==
  [cpu_total |-> ct, precpu_total |-> pct, system |-> sy, presystem |-> psy,
   online_cpus |-> on, percpu_len |-> pl,
   mem_usage |-> mu, mem_cache |-> mc, mem_limit |-> ml,
   blkio |-> bl, pids |-> pi]
Blkio(rec, flat) == [io_service_bytes_recursive |-> rec, io_service_bytes |-> flat]
Entry(op, value) == [op |-> op, value |-> value]

\* A JavaScript truthiness test of an optional number: absent and 0 are falsy.
Truthy(o) == o # None /\ o[1] # 0

\* server.js:29-42.  stats is an optional payload.
calculateCPUPercent(stats) ==
  IF stats = None THEN Num(0)
  ELSE LET st == stats[1] IN
    IF ~Truthy(st.cpu_total) \/ ~Truthy(st.precpu_total) THEN Num(0)
    ELSE IF st.system = None \/ st.presystem = None THEN Num(0)
    ELSE LET cpuDelta == st.cpu_total[1] - st.precpu_total[1]
             systemDelta == st.system[1] - st.presystem[1]
             numberCpus == OrElse(st.online_cpus, OrElse(st.percpu_len, 1))
         IN IF systemDelta > 0 /\ cpuDelta > 0
            THEN Frac(cpuDelta * numberCpus * 100, systemDelta)
            ELSE Num(0)

\* server.js:44-57.  The early return has no usage field.
calculateMemoryUsage(stats) ==
  IF stats = None THEN [usage |-> None, limit |-> Some(0), percent |-> Num(0)]
  ELSE LET st == stats[1] IN
    IF ~Truthy(st.mem_usage) THEN [usage |-> None, limit |-> Some(0), percent |-> Num(0)]
    ELSE LET used_memory == st.mem_usage[1] - OrElse(st.mem_cache, 0)
             available_memory == st.mem_limit
         IN [usage |-> Some(used_memory),
             limit |-> available_memory,
             percent |-> IF available_memory = None THEN NaN
                         ELSE Frac(used_memory * 100, available_memory[1])]

\* ToLowerCase left out: the tag compared as it came.
ToLowerCaseLeftOut(op) == op

\* String.prototype.toLowerCase on the operation tags the runtime reports.
ToLowerCase(op) ==
  CASE op \in {"Read", "READ", "read"} -> "read"
    [] op \in {"Write", "WRITE", "write"} -> "write"
    [] op \in {"Total", "total"} -> "total"
    [] OTHER -> op

Threw == [threw |-> TRUE, read |-> Num(0), write |-> Num(0)]
Returned(r, w) == [threw |-> FALSE, read |-> r, write |-> w]

\* server.js:66-73 processStatsArray, the array given: entry.op.toLowerCase()
\* throws a TypeError on an entry that has no op.
RECURSIVE processStatsArray(_, _)
processStatsArray(arr, acc) ==
  IF arr = <<>> THEN acc
  ELSE LET entry == Head(arr) IN
    IF entry.op = None THEN Threw
    ELSE LET op == ToLowerCase(entry.op[1])
             next == IF op = "read" THEN Returned(AddOpt(acc.read, entry.value), acc.write)
                     ELSE IF op = "write" THEN Returned(acc.read, AddOpt(acc.write, entry.value))
                     ELSE acc
         IN processStatsArray(Tail(arr), next)

\* server.js:59-86.  blkioStats is optional; an array, also an empty one, is
\* truthy.
calculateBlockIO(blkioStats) ==
  IF blkioStats = None THEN Returned(Num(0), Num(0))
  ELSE IF blkioStats[1].io_service_bytes_recursive # None
       THEN processStatsArray(blkioStats[1].io_service_bytes_recursive[1], Returned(Num(0), Num(0)))
  ELSE IF blkioStats[1].io_service_bytes # None
       THEN processStatsArray(blkioStats[1].io_service_bytes[1], Returned(Num(0), Num(0)))
  ELSE Returned(Num(0), Num(0))

\* server.js:100-115: the stats object built from a payload, or None when the
\* try block throws and the catch leaves stats null.  rawStats.networks and
\* rawStats.blkio_stats throw on an absent payload.
DeriveStats(rawStats) ==
  LET cpuPercent == calculateCPUPercent(rawStats)
      memStats == calculateMemoryUsage(rawStats)
  IN IF rawStats = None THEN None
     ELSE LET blockIO == calculateBlockIO(rawStats[1].blkio) IN
       IF blockIO.threw THEN None
       ELSE Some([cpu |-> ToFixed2(cpuPercent),
                  memory |-> memStats.usage,
                  memoryLimit |-> memStats.limit,
                  memoryPercent |-> ToFixed2(memStats.percent),
                  blockIO |-> [read |-> blockIO.read, write |-> blockIO.write],
                  pids |-> OrElse(rawStats[1].pids, 0)])

(***************************************************************************)
(* What the container runtime answers.                                     *)
(***************************************************************************)
ContainerInfo(id, state) == [Id |-> id, State |-> state]

Listings ==
  { <<ContainerInfo("a", "running"), ContainerInfo("b", "running"), ContainerInfo("c", "exited")>>,
    <<ContainerInfo("c", "exited")>> }

RawStatsSamples ==
  { \* a complete payload: 80.00 % cpu, 40.00 % memory
    Some(RawStats(Some(400), Some(200), Some(2000), Some(1000), Some(4), None,
                  Some(50), Some(10), Some(100),
                  Some(Blkio(Some(<<Entry(Some("Read"), Some(5)), Entry(Some("write"), Some(3))>>), None)),
                  Some(7))),
    \* {}: a payload with no field
    Some(RawStats(None, None, None, None, None, None, None, None, None, None, None)),
    \* a block-I/O entry without an operation tag
    Some(RawStats(Some(400), Some(200), Some(2000), Some(1000), Some(4), None,
                  Some(50), Some(10), Some(100),
                  Some(Blkio(Some(<<Entry(None, Some(5))>>), None)),
                  Some(7))) }


(***************************************************************************)
(* monitorContainers (server.js:88-133).                                   *)
(***************************************************************************)
\* An invocation suspended at await docker.listContainers.
ContListing == [phase |-> "listing", list |-> <<>>, req |-> <<>>, stats |-> <<>>]
\* An invocation that returned: "published" after io.emit, "failed" after the
\* outer catch.
ContEnded(phase) == [phase |-> phase, list |-> <<>>, req |-> <<>>, stats |-> <<>>]

\* server.js:118-125, one entry of enrichedContainers.  Id.substring(0, 12)
\* keeps the ids of the model whole.
Snapshot(containerInfo, stats) ==
  [id |-> containerInfo.Id, state |-> containerInfo.State, stats |-> stats]

EnrichedContainers(c) == [i \in 1..Len(c.list) |-> Snapshot(c.list[i], c.stats[i])]

\* Promise.all has settled for invocation c of round r: io.emit('containers').
PublishContainers(r, c) ==
  /\ cont' = [cont EXCEPT ![r] = ContEnded("published")]
  /\ inbox' = IoEmit(inbox, Event("containers", EnrichedContainers(c)))
  /\ lastContainers' = [published |-> TRUE, list |-> c.list, req |-> c.req,
                        event |-> EnrichedContainers(c)]

\* The invocation after one more answer: publish when none is awaited.
ContinueContainers(r, c) ==
  IF \E i \in 1..Len(c.req) : c.req[i] = "pending"
  THEN /\ cont' = [cont EXCEPT ![r] = c]
       /\ UNCHANGED <<inbox, lastContainers>>
  ELSE PublishContainers(r, c)

\* ListFails with the catch publishing the previous round's list again.
ListFailsResending(r) ==
  /\ running
  /\ r \in 1..Len(cont) /\ cont[r].phase = "listing"
  /\ cont' = [cont EXCEPT ![r] = ContEnded("failed")]
  /\ inbox' = IoEmit(inbox, Event("containers", lastContainers.event))
  /\ UNCHANGED <<running, boots, file, systemHistory, now, started, rounds, sys, connected,
                 loadedFrom, appended, saved, connHist, lastContainers, lastWrite,
                 probe, derived, client>>

\* docker.listContainers rejects: the outer catch logs.
ListFails(r) ==
  /\ running
  /\ r \in 1..Len(cont) /\ cont[r].phase = "listing"
  /\ cont' = [cont EXCEPT ![r] = ContEnded("failed")]
  /\ UNCHANGED <<running, boots, file, systemHistory, now, started, rounds, sys, connected,
                 inbox, loadedFrom, appended, saved, connHist, lastContainers, lastWrite,
                 probe, derived, client>>

\* ListResolves with the test of the state left out: a stats request goes
\* out for every listed container.
ListResolvesRequestingAll(r, containers) ==
  /\ running
  /\ r \in 1..Len(cont) /\ cont[r].phase = "listing"
  /\ ContinueContainers(r,
       [phase |-> "stats",
        list |-> containers,
        req |-> [i \in 1..Len(containers) |-> "pending"],
        stats |-> [i \in 1..Len(containers) |-> None]])
  /\ UNCHANGED <<running, boots, file, systemHistory, now, started, rounds, sys, connected,
                 loadedFrom, appended, saved, connHist, lastWrite, probe, derived, client>>

\* docker.listContainers resolves: a stats request goes out for each running
\* container; the others are mapped at once with stats null.
ListResolves(r, containers) ==
  /\ running
  /\ r \in 1..Len(cont) /\ cont[r].phase = "listing"
  /\ ContinueContainers(r,
       [phase |-> "stats",
        list |-> containers,
        req |-> [i \in 1..Len(containers) |->
                   IF containers[i].State = "running" THEN "pending" ELSE "none"],
        stats |-> [i \in 1..Len(containers) |-> None]])
  /\ UNCHANGED <<running, boots, file, systemHistory, now, started, rounds, sys, connected,
                 loadedFrom, appended, saved, connHist, lastWrite, probe, derived, client>>

\* getContainerStats of container i rejects: the inner catch logs, stats
\* stays null.
StatsFails(r, i) ==
  /\ running
  /\ r \in 1..Len(cont) /\ cont[r].phase = "stats"
  /\ i \in 1..Len(cont[r].req) /\ cont[r].req[i] = "pending"
  /\ ContinueContainers(r, [cont[r] EXCEPT !.req[i] = "failed"])
  /\ UNCHANGED <<running, boots, file, systemHistory, now, started, rounds, sys, connected,
                 loadedFrom, appended, saved, connHist, lastWrite, probe, derived, client>>

\* getContainerStats of container i resolves with rawStats.
StatsResolves(r, i, rawStats) ==
  /\ running
  /\ r \in 1..Len(cont) /\ cont[r].phase = "stats"
  /\ i \in 1..Len(cont[r].req) /\ cont[r].req[i] = "pending"
  /\ ContinueContainers(r, [cont[r] EXCEPT !.req[i] = "ok",
                                           !.stats[i] = DeriveStats(rawStats)])
  /\ UNCHANGED <<running, boots, file, systemHistory, now, started, rounds, sys, connected,
                 loadedFrom, appended, saved, connHist, lastWrite, probe, derived, client>>

(***************************************************************************)
(* monitorSystem (server.js:172-233).                                      *)
(***************************************************************************)
\* An invocation suspended at await Promise.all([...]).
SysGather == [phase |-> "gather", gatherOk |-> FALSE, pushed |-> FALSE, emitted |-> FALSE]
\* An invocation that returned.
SysEnded(ok, pushed, emitted) ==
  [phase |-> "done", gatherOk |-> ok, pushed |-> pushed, emitted |-> emitted]

\* GatherRejects with the temperature query taken out of the Promise.all.
GatherRejectsButTemperature(failed) == failed \ {"cpuTemperature"} # {}

\* Promise.all rejects as soon as one of its promises does.
GatherRejects(failed) == failed # {}

\* PushHistory with unshift and pop in place of push and shift: the record
\* goes to the front, the last one is dropped when over capacity.
PushHistoryAtFront(items, stats) ==
  LET unshifted == <<stats>> \o items
  IN IF Len(unshifted) > MAX_HISTORY
     THEN SubSeq(unshifted, 1, Len(unshifted) - 1)
     ELSE unshifted

\* server.js:224-227: push, then shift when over capacity.
PushHistory(items, stats) ==
  LET pushed == Append(items, stats)
  IN IF Len(pushed) > MAX_HISTORY THEN Tail(pushed) ELSE pushed

\* The gather of round r settles: the queries in `failed` rejected, the others
\* answered; Date.now() returns t.  systemHistory.push throws a
\* TypeError when systemHistory is no array, and the catch logs it.
SystemSettles(r, failed, t) ==
  /\ running
  /\ r \in 1..Len(sys) /\ sys[r].phase = "gather"
  /\ IF GatherRejects(failed)
     THEN /\ sys' = [sys EXCEPT ![r] = SysEnded(failed = {}, FALSE, FALSE)]
          /\ UNCHANGED <<systemHistory, now, inbox, appended>>
     ELSE LET stats == HostStats(HostAt(t), t) IN
          /\ now' = t
          /\ IF IsArray(systemHistory)
             THEN /\ systemHistory' = JSArray(PushHistory(systemHistory.items, stats))
                  /\ appended' = Append(appended, stats)
                  /\ inbox' = IoEmit(inbox, Event("systemStats", [stats |-> stats]))
                  /\ sys' = [sys EXCEPT ![r] = SysEnded(failed = {}, TRUE, TRUE)]
             ELSE /\ sys' = [sys EXCEPT ![r] = SysEnded(failed = {}, FALSE, FALSE)]
                  /\ UNCHANGED <<systemHistory, inbox, appended>>
  /\ UNCHANGED <<running, boots, file, started, rounds, cont, connected, loadedFrom,
                 saved, connHist, lastContainers, lastWrite, probe, derived, client>>

(***************************************************************************)
(* The update loop and the connection handler (server.js:235-254).         *)
(***************************************************************************)
\* monitorContainers(); monitorSystem(); each runs to its first await.
StartRound(origin, by) ==
  /\ started' = started + 1
  /\ rounds' = Append(rounds, [origin |-> origin, by |-> by])
  /\ cont' = Append(cont, ContListing)
  /\ sys' = Append(sys, SysGather)

\* server.js:236, milliseconds between two timer ticks.
POLL_INTERVAL == 5000
\* server.js:138, the capacity as the source sets it (the model runs the
\* buffer with the small capacity MAX_HISTORY).
MAX_HISTORY_InSource == 14400
\* What a buffer filled by timer ticks spans, in milliseconds.
FullBufferSpan == MAX_HISTORY_InSource * POLL_INTERVAL

\* setInterval(..., POLL_INTERVAL) fires.
Tick ==
  /\ running
  /\ started < MaxRounds
  /\ StartRound("tick", 0)
  /\ UNCHANGED <<running, boots, file, systemHistory, now, connected, inbox,
                 loadedFrom, appended, saved, connHist, lastContainers, lastWrite,
                 probe, derived, client>>

\* Connection without the initHistory replay.
ConnectionWithoutReplay(s) ==
  /\ running
  /\ s \notin connected
  /\ started < MaxRounds
  /\ connected' = connected \cup {s}
  /\ connHist' = [connHist EXCEPT ![s] = systemHistory]
  /\ StartRound("connection", s)
  /\ UNCHANGED <<running, boots, file, systemHistory, now, inbox, loadedFrom, appended,
                 saved, lastContainers, lastWrite, probe, derived, client>>

\* Connection replaying the buffer as the process started with it, an empty
\* array, in place of the buffer of the moment.
ConnectionReplayingEmpty(s) ==
  /\ running
  /\ s \notin connected
  /\ started < MaxRounds
  /\ connected' = connected \cup {s}
  /\ inbox' = SocketEmit(inbox, s, Event("initHistory", JSArray(<<>>)))
  /\ connHist' = [connHist EXCEPT ![s] = JSArray(<<>>)]
  /\ StartRound("connection", s)
  /\ UNCHANGED <<running, boots, file, systemHistory, now, loadedFrom, appended,
                 saved, lastContainers, lastWrite, probe, derived, client>>

\* io.on('connection'): socket s has joined; initHistory, then a round.
Connection(s) ==
  /\ running
  /\ s \notin connected
  /\ started < MaxRounds
  /\ connected' = connected \cup {s}
  /\ inbox' = SocketEmit(inbox, s, Event("initHistory", systemHistory))
  /\ connHist' = [connHist EXCEPT ![s] = systemHistory]
  /\ StartRound("connection", s)
  /\ UNCHANGED <<running, boots, file, systemHistory, now, loadedFrom, appended,
                 saved, lastContainers, lastWrite, probe, derived, client>>

\* The socket closes; what it received is gone with it.
Disconnect(s) ==
  /\ running
  /\ s \in connected
  /\ connected' = connected \ {s}
  /\ inbox' = [inbox EXCEPT ![s] = <<>>]
  /\ UNCHANGED <<running, boots, file, systemHistory, now, started, rounds, sys, cont,
                 loadedFrom, appended, saved, connHist, lastContainers, lastWrite,
                 probe, derived, client>>

ClockValues(from) == {t \in from..(from + 1) : t <= MaxClock}

\* The outcomes of one gather: every query answers, one of them rejects, or
\* all of them do.
GatherFailures == {{}} \cup {{q} : q \in Queries} \cup {Queries}

Scheduler ==
  \/ Tick
  \/ \E s \in Subscribers : Connection(s)
  \/ \E s \in Subscribers : Disconnect(s)

Containers ==
  \/ \E r \in 1..Len(cont) : ListFails(r)
  \/ \E r \in 1..Len(cont), containers \in Listings : ListResolves(r, containers)
  \/ \E r \in 1..Len(cont) : \E i \in 1..Len(cont[r].req) : StatsFails(r, i)
  \/ \E r \in 1..Len(cont) : \E i \in 1..Len(cont[r].req), rawStats \in RawStatsSamples :
       StatsResolves(r, i, rawStats)

System ==
  \E r \in 1..Len(sys), failed \in GatherFailures, t \in ClockValues(now) :
    SystemSettles(r, failed, t)

Lifecycle ==
  \/ FlushTimer
  \/ Signal
  \/ Startup

(***************************************************************************)
(* The derivation functions on their own (server.js:101-110): a payload,   *)
(* as getContainerStats resolves with one, and what calculateCPUPercent,   *)
(* calculateMemoryUsage and calculateBlockIO return for it.                *)
(***************************************************************************)
\* Longest block-I/O breakdown.
MaxEntries == 2

\* Payloads that differ in the CPU counters: each of the cumulative usages
\* absent, 0 or positive, the system usages absent or positive, with and
\* without online_cpus and percpu_usage.
CpuPayloads ==
  { RawStats(ct, pct, sy, psy, on, pl, None, None, None, None, None) :
      ct \in {None, Some(0), Some(200), Some(400)},
      pct \in {None, Some(0), Some(200), Some(400)},
      sy \in {None, Some(1000), Some(2000)},
      psy \in {None, Some(1000), Some(2000)},
      on \in {None, Some(4)},
      pl \in {None, Some(2)} }

\* Payloads that differ in memory_stats: usage absent, 0 or positive, with
\* and without stats.cache, limit absent, 0, negative or positive.
MemoryPayloads ==
  { RawStats(None, None, None, None, None, None, mu, mc, ml, None, None) :
      mu \in {None, Some(0), Some(50)},
      mc \in {None, Some(10)},
      ml \in {None, Some(0), Some(-100), Some(100)} }

\* The entries of a breakdown: tagged in either letter case, tagged Total,
\* without a tag, without a value.
Entries ==
  { Entry(op, value) :
      op \in {None, Some("Read"), Some("read"), Some("WRITE"), Some("write"), Some("Total")},
      value \in {Some(3), Some(5)} }
    \cup {Entry(Some("read"), None)}

EntryLists == UNION {[1..n -> Entries] : n \in 0..MaxEntries}

\* Payloads that differ in blkio_stats: no blkio_stats, and every recursive
\* breakdown (or none) beside no flat breakdown, an empty one, one entry.
BlkioPayloads ==
  { RawStats(None, None, None, None, None, None, None, None, None, bl, None) :
      bl \in {None} \cup
             { Some(Blkio(rec, flat)) :
                 rec \in {None} \cup {Some(l) : l \in EntryLists},
                 flat \in {None, Some(<<>>), Some(<<Entry(Some("Read"), Some(7))>>)} } }

Payloads == CpuPayloads \cup MemoryPayloads \cup BlkioPayloads

\* server.js:101, 102, 110: the three calls on one payload.
DeriveMetrics ==
  /\ probe # None /\ derived = None
  /\ derived' = Some([cpu |-> calculateCPUPercent(probe),
                      memory |-> calculateMemoryUsage(probe),
                      blockIO |-> calculateBlockIO(probe[1].blkio)])
  /\ UNCHANGED <<running, boots, file, systemHistory, now, started, rounds, sys, cont,
                 connected, inbox, loadedFrom, appended, saved, connHist, lastWrite,
                 lastContainers, probe, client>>

InitD ==
  /\ InitServer /\ file = Absent /\ client = NoClient
  /\ probe \in {Some(p) : p \in Payloads} /\ derived = None
NextD == DeriveMetrics
SpecD == InitD /\ [][NextD]_vars

(***************************************************************************)
(* The browser client (public/app.js).  Two listeners are registered for   *)
(* initHistory and two for systemStats: one pair when the script loads     *)
(* (lines 57-70), one pair on DOMContentLoaded (lines 290-313).  An event  *)
(* is handed to the listeners of its name in the order of registration.    *)
(***************************************************************************)
\* app.js:66 trims at 14400, the literal of the server's MAX_HISTORY.
ClientCapacityAtLoad == MAX_HISTORY
\* app.js:304 trims at 5760, a smaller literal.
ClientCapacityOnReady == MAX_HISTORY - 1

\* app.js:57-60 and 290-298: systemHistory = history.
OnInitHistory(systemHistoryOfPage, history) == history

\* app.js:64-66 and 303-304: push, then one shift when over the listener's
\* limit.  push on a value that is no array throws; the value stays.
OnSystemStats(systemHistoryOfPage, stats, limit) ==
  IF ~IsArray(systemHistoryOfPage) THEN systemHistoryOfPage
  ELSE LET pushed == Append(systemHistoryOfPage.items, stats)
       IN JSArray(IF Len(pushed) > limit THEN Tail(pushed) ELSE pushed)

\* One delivered event through the listeners of its name, first the one
\* registered at load, then the one registered on DOMContentLoaded.
Dispatch(systemHistoryOfPage, ev) ==
  CASE ev.name = "initHistory" ->
         OnInitHistory(OnInitHistory(systemHistoryOfPage, ev.payload), ev.payload)
    [] ev.name = "systemStats" ->
         OnSystemStats(OnSystemStats(systemHistoryOfPage, ev.payload.stats, ClientCapacityAtLoad),
                       ev.payload.stats, ClientCapacityOnReady)
    [] OTHER -> systemHistoryOfPage

\* The page behind socket s handles the next event delivered to it.
ClientReceives(s) ==
  /\ running
  /\ s \in connected
  /\ client[s].handled < Len(inbox[s])
  /\ client' = [client EXCEPT ![s] =
                  [systemHistory |-> Dispatch(@.systemHistory, inbox[s][@.handled + 1]),
                   handled |-> @.handled + 1]]
  /\ UNCHANGED <<running, boots, file, systemHistory, now, started, rounds, sys, cont,
                 connected, inbox, loadedFrom, appended, saved, connHist, lastWrite,
                 lastContainers, probe, derived>>

\* The host collector, the sockets, which stay connected, and their pages.
NextW ==
  \/ Tick
  \/ \E s \in Subscribers : Connection(s)
  \/ System
  \/ \E s \in Subscribers : ClientReceives(s)
SpecW == Init /\ [][NextW]_vars

\* The whole server.
Next == Scheduler \/ Containers \/ System \/ Lifecycle
Spec == Init /\ [][Next]_vars

\* The history store and the host collector; monitorContainers neither reads
\* nor writes what they use, its invocations stay suspended.
NextH == Scheduler \/ System \/ Lifecycle
SpecH == Init /\ [][NextH]_vars

\* The history store without sockets: ticks, their gathers, flushes, signals
\* and restarts.
NextF == Tick \/ System \/ Lifecycle
SpecF == Init /\ [][NextF]_vars

\* The host collector and the sockets in one process run.
NextS == Scheduler \/ System
SpecS == Init /\ [][NextS]_vars

\* The container collector, which reads neither the file nor the history
\* buffer; monitorSystem's invocations stay suspended.
InitC == Init /\ file = Absent
NextC == Scheduler \/ Containers
SpecC == InitC /\ [][NextC]_vars

\* The container collector's listing alone, before a runtime none of whose
\* containers is running: no stats request goes out.
NoneRunning == {l \in Listings : \A i \in 1..Len(l) : l[i].State # "running"}
NextL ==
  \/ Scheduler
  \/ \E r \in 1..Len(cont) : ListFails(r)
  \/ \E r \in 1..Len(cont), containers \in NoneRunning : ListResolves(r, containers)
SpecL == InitC /\ [][NextL]_vars

\* The container collector driven by the timer alone, no socket connected.
NextK == Tick \/ Containers
SpecK == InitC /\ [][NextK]_vars

\* Both collectors of every round, in one process run that starts without a
\* file or with a file that holds null; the sockets that connect stay.
InitB == Init /\ file \in {Absent, FileOf(JSONstringify(JSNull))}
NextB == Tick \/ (\E s \in Subscribers : Connection(s)) \/ Containers \/ System
SpecB == InitB /\ [][NextB]_vars


(***************************************************************************)
(* Properties.                                                             *)
(***************************************************************************)
InFlightSys == {r \in 1..Len(sys) : sys[r].phase = "gather"}
InFlightCont == {r \in 1..Len(cont) : cont[r].phase \in {"listing", "stats"}}
\* The text of f is a serialized array.
HoldsArray(f) == f.exists /\ JSONparse(f.text).kind = "array"
LastN(seq, n) == SubSeq(seq, Len(seq) - n + 1, Len(seq))

\* C1: in every reachable state, after the startup load and after any ticks,
\* connections and flushes, the history buffer holds at most MAX_HISTORY
\* records.
C1_LengthWithinCapacity ==
  (running /\ IsArray(systemHistory)) => Len(systemHistory.items) <= MAX_HISTORY

\* C2: once MAX_HISTORY + k records (k >= 0) have been appended by successful
\* host collections, the buffer holds exactly the MAX_HISTORY most recent of
\* them, oldest first.
C2_KeepsMostRecent ==
  (running /\ Len(appended) >= MAX_HISTORY)
    => systemHistory = JSArray(LastN(appended, MAX_HISTORY))

\* C3: the first event a connected socket received is initHistory, its payload
\* is the buffer as it was when the socket connected, and every systemStats
\* event comes after it.
C3_InitHistoryFirst ==
  \A s \in connected :
    /\ inbox[s] # <<>>
    /\ inbox[s][1] = Event("initHistory", connHist[s])
    /\ \A i \in 2..Len(inbox[s]) : inbox[s][i].name # "initHistory"

\* C3 witness: a socket connected while a tick's round was in flight, received
\* a non-empty history first and then that round's systemStats, while the
\* round of its own connection is still in flight.
C3_Witness ==
  \E s \in connected :
    /\ Len(rounds) = 2
    /\ rounds[1].origin = "tick" /\ rounds[2] = [origin |-> "connection", by |-> s]
    /\ sys[2].phase = "gather"
    /\ Len(inbox[s]) = 2 /\ inbox[s][2].name = "systemStats"
    /\ IsArray(connHist[s]) /\ connHist[s].items # <<>>

\* C4: no two monitorSystem invocations and no two monitorContainers
\* invocations are in flight at the same time.
C4_NoOverlap == Cardinality(InFlightSys) <= 1 /\ Cardinality(InFlightCont) <= 1

\* C5: in a published containers event of a round in which the stats request
\* of container X failed, every listed container has an entry, X's stats is
\* null, and every other container whose stats request succeeded has stats.
C5_FailureIsolated ==
  lastContainers.published =>
    \A x \in 1..Len(lastContainers.req) :
      lastContainers.req[x] = "failed" =>
        /\ Len(lastContainers.event) = Len(lastContainers.list)
        /\ lastContainers.event[x].stats = None
        /\ \A y \in 1..Len(lastContainers.req) :
             lastContainers.req[y] = "ok" => lastContainers.event[y].stats # None

\* C6: in every published snapshot, stats is null exactly when the container
\* is not running or its stats request failed.
C6_StatsNullIff ==
  lastContainers.published =>
    \A i \in 1..Len(lastContainers.event) :
      (lastContainers.event[i].stats = None)
        <=> (lastContainers.list[i].State # "running" \/ lastContainers.req[i] = "failed")

\* C7: a startup load that reads a file written by a successful saveHistory
\* yields the buffer that was saved, record for record.
C7_RoundTrip ==
  [][(~running /\ running' /\ saved # None) => systemHistory' = saved[1]]_vars

\* C7 witness: a second process run has just loaded what the first one saved,
\* a buffer with a record the first run collected.
C7_Witness ==
  /\ running /\ boots = 2 /\ appended = <<>>
  /\ saved # None /\ systemHistory = saved[1]
  /\ IsArray(systemHistory)
  /\ \E i \in 1..Len(systemHistory.items) : systemHistory.items[i].timestamp = 1

\* C8: after a startup load that found no file, or a file that is not a
\* serialized array, the history buffer is the empty array.
C8_EmptyUnlessArray ==
  (running /\ appended = <<>> /\ ~HoldsArray(loadedFrom)) => systemHistory = JSArray(<<>>)

\* C9: in a round whose monitorContainers failed at the listing,
\* monitorSystem, its own gather having succeeded, has appended its record
\* and published systemStats.  (The other half, monitorContainers publishing
\* when monitorSystem failed, is how every listed round ends.)
C9_CollectorsIndependent ==
  \A r \in 1..Len(rounds) :
    (cont[r].phase = "failed" /\ sys[r].phase = "done" /\ sys[r].gatherOk)
      => (sys[r].pushed /\ sys[r].emitted)

\* C10: a monitorSystem round in which a host-information query failed leaves
\* the history buffer as it was and delivers no event.
C10_FailedGatherChangesNothing ==
  [][\A r \in 1..Len(sys) :
       (sys[r].phase = "gather" /\ r <= Len(sys') /\ sys'[r].phase = "done"
          /\ ~sys'[r].gatherOk)
         => (systemHistory' = systemHistory /\ inbox' = inbox /\ appended' = appended)]_vars

\* C10 witness: a round ended on a failed gather with a socket connected and
\* records in the buffer.
C10_Witness ==
  /\ connected # {}
  /\ IsArray(systemHistory) /\ systemHistory.items # <<>>
  /\ \E r \in 1..Len(sys) : sys[r].phase = "done" /\ ~sys[r].gatherOk

\* C11: the step in which a monitorContainers invocation ends on a failed
\* listing delivers no event to any socket, and the ended invocation takes no
\* later step: that round publishes no containers event.
C11_FailedListingPublishesNothing ==
  [][\A r \in 1..Len(cont) :
       /\ (cont[r].phase = "listing" /\ r <= Len(cont') /\ cont'[r].phase = "failed")
            => (inbox' = inbox /\ lastContainers' = lastContainers)
       /\ (cont[r].phase = "failed" /\ r <= Len(cont'))
            => cont'[r] = cont[r]]_vars

\* C11 witness: the first round published a list to a connected socket, the
\* second round's listing failed, and the socket holds that one containers
\* event only.
C11_Witness ==
  \E s \in connected :
    /\ Len(cont) = 2 /\ cont[1].phase = "published" /\ cont[2].phase = "failed"
    /\ lastContainers.published /\ lastContainers.event # <<>>
    /\ Cardinality({i \in 1..Len(inbox[s]) : inbox[s][i].name = "containers"}) = 1

\* C12: a step in which a round started by a connection publishes its
\* containers or its systemStats event delivers nothing to any socket but the
\* one whose connection started the round.
C12_ConnectionRoundToConnectingSocketOnly ==
  [][\A r \in 1..Len(rounds) :
       (/\ rounds[r].origin = "connection"
        /\ r <= Len(cont')
        /\ \/ cont[r].phase # "published" /\ cont'[r].phase = "published"
           \/ sys[r].phase = "gather" /\ sys'[r].phase = "done")
         => \A s \in Subscribers \ {rounds[r].by} : inbox'[s] = inbox[s]]_vars

\* C13: the records this run appended to the history buffer are as many as
\* the rounds started by the timer that pushed one: no record comes from a
\* round started by a connection.
C13_OnlyTicksAppend ==
  running =>
    Len(appended) = Cardinality({r \in 1..Len(rounds) :
                                   rounds[r].origin = "tick" /\ sys[r].pushed})

\* C14: a periodic saveHistory, however its write ends, leaves the history
\* buffer and the records of this run as they were, the process running and
\* the rounds in flight where they were.
C14_FlushLeavesBufferAndProcess ==
  [][FlushTimer => (/\ running'
                    /\ systemHistory' = systemHistory
                    /\ appended' = appended
                    /\ sys' = sys /\ cont' = cont)]_vars

\* C14 witness: the last periodic flush of this run failed when one record
\* had been appended, and a later round appended a second one to the same
\* buffer.
C14_Witness ==
  /\ running /\ boots = 1 /\ loadedFrom = Absent
  /\ lastWrite.by = "timer" /\ lastWrite.outcome \in {"failed", "truncated"}
  /\ lastWrite.at = 1 /\ Len(appended) = 2
  /\ systemHistory = JSArray(appended)

\* C15: the step in which the process exits on SIGINT or SIGTERM has called
\* saveHistory, and when its write succeeded the file holds the serialized
\* history buffer of the moment of the signal and parses back to it.
C15_SignalSavesBeforeExit ==
  [][(running /\ ~running')
       => /\ lastWrite'.by = "signal"
          /\ lastWrite'.at = Len(appended)
          /\ lastWrite'.outcome = "written"
               => /\ file' = FileOf(JSONstringify(systemHistory))
                  /\ JSONparse(file'.text) = systemHistory]_vars

\* C15 witness: the first run, started without a file, has exited on a signal
\* whose write succeeded; it had appended two records and the file holds
\* both, in order.
C15_Witness ==
  /\ ~running /\ boots = 1 /\ loadedFrom = Absent
  /\ lastWrite = [by |-> "signal", outcome |-> "written", at |-> 2]
  /\ saved # None /\ IsArray(saved[1]) /\ Len(saved[1].items) = 2
  /\ saved[1].items[1].timestamp < saved[1].items[2].timestamp
  /\ file = FileOf(JSONstringify(saved[1]))

\* C16: whatever failed before (the load included), every monitorSystem
\* invocation whose gather succeeded has appended its record and published
\* systemStats, and every monitorContainers invocation whose listing
\* succeeded and whose stats requests are all answered has published.
C16_NoErrorStopsPublication ==
  \A r \in 1..Len(rounds) :
    /\ (sys[r].phase = "done" /\ sys[r].gatherOk) => (sys[r].pushed /\ sys[r].emitted)
    /\ cont[r].phase = "stats" => \E i \in 1..Len(cont[r].req) : cont[r].req[i] = "pending"

\* Two quotients are the same number.
SameNumber(a, b) ==
  IF IsFinite(a) /\ IsFinite(b) THEN a.num * b.den = b.num * a.den ELSE a = b

\* C17: for a payload that carries the four counters (0 included),
\* calculateCPUPercent returns (cpuDelta / systemDelta) x onlineCpuCount x 100
\* when both deltas are positive, onlineCpuCount being online_cpus, else the
\* length of percpu_usage, else 1; and 0 when a delta is not positive.
C17_CPUPercentFormula ==
  derived # None =>
    LET st == probe[1] IN
    (st.cpu_total # None /\ st.precpu_total # None /\ st.system # None /\ st.presystem # None)
      => LET cpuDelta == st.cpu_total[1] - st.precpu_total[1]
             systemDelta == st.system[1] - st.presystem[1]
             onlineCpuCount == IF st.online_cpus # None THEN st.online_cpus[1]
                               ELSE IF st.percpu_len # None THEN st.percpu_len[1]
                               ELSE 1
         IN SameNumber(derived[1].cpu,
                       IF systemDelta > 0 /\ cpuDelta > 0
                       THEN Frac(cpuDelta * onlineCpuCount * 100, systemDelta)
                       ELSE Num(0))

\* C18: for a payload with a memory usage (and a cache, a part of it, no
\* larger), calculateMemoryUsage's percent is (usage - cache) / limit x 100
\* when limit > 0, cache counting 0 when absent, and 0 when limit is 0,
\* negative or absent.
C18_MemoryPercentGuarded ==
  derived # None =>
    LET st == probe[1] IN
    (st.mem_usage # None /\ OrElse(st.mem_cache, 0) <= st.mem_usage[1])
      => LET limit == st.mem_limit
             used == st.mem_usage[1] - OrElse(st.mem_cache, 0)
         IN /\ IsFinite(derived[1].memory.percent)
            /\ SameNumber(derived[1].memory.percent,
                          IF limit # None /\ limit[1] > 0
                          THEN Frac(used * 100, limit[1])
                          ELSE Num(0))

\* What an operation tag stands for, whatever its letter case.
TagOf(op) ==
  IF op \in {"read", "Read", "READ"} THEN "read"
  ELSE IF op \in {"write", "Write", "WRITE"} THEN "write"
  ELSE "other"

\* Every entry of l carries a tag and a value.
Tagged(l) == \A i \in 1..Len(l) : l[i].op # None /\ l[i].value # None

\* The sum of the values of the entries of l whose tag stands for tag.
RECURSIVE SumTagged(_, _)
SumTagged(l, tag) ==
  IF l = <<>> THEN 0
  ELSE (IF TagOf(Head(l).op[1]) = tag THEN Head(l).value[1] ELSE 0)
         + SumTagged(Tail(l), tag)

\* The lists that hold the entries of l in some order, each tag in some
\* letter case.
Rearrangements(l) ==
  { q \in [1..Len(l) -> Entries] :
      /\ Tagged(q)
      /\ \E p \in Permutations(1..Len(l)) :
           \A i \in 1..Len(l) :
             q[i].value = l[p[i]].value /\ TagOf(q[i].op[1]) = TagOf(l[p[i]].op[1]) }

\* C19: for every recursive breakdown of tagged entries, calculateBlockIO
\* returns the sums of the values of its read-tagged and of its write-tagged
\* entries, and returns the same for the entries in any other order and with
\* the tags in any other letter case.
C19_BlockIOOrderAndCaseInsensitive ==
  derived # None =>
    LET bl == probe[1].blkio IN
    (bl # None /\ bl[1].io_service_bytes_recursive # None
       /\ Tagged(bl[1].io_service_bytes_recursive[1]))
      => LET l == bl[1].io_service_bytes_recursive[1]
         IN /\ derived[1].blockIO
                 = Returned(Num(SumTagged(l, "read")), Num(SumTagged(l, "write")))
            /\ \A q \in Rearrangements(l) :
                 calculateBlockIO(Some(Blkio(Some(q), bl[1].io_service_bytes)))
                   = derived[1].blockIO

\* C19 witness: the totals of [{op:"Read",value:5},{op:"write",value:3}] are
\* read 5, write 3, and [{op:"WRITE",value:3},{op:"read",value:5}] is one of
\* its rearrangements.
C19_Witness ==
  /\ derived # None
  /\ probe[1].blkio = Some(Blkio(Some(<<Entry(Some("Read"), Some(5)),
                                        Entry(Some("write"), Some(3))>>), None))
  /\ derived[1].blockIO = Returned(Num(5), Num(3))
  /\ <<Entry(Some("WRITE"), Some(3)), Entry(Some("read"), Some(5))>>
       \in Rearrangements(probe[1].blkio[1].io_service_bytes_recursive[1])

\* C20: calculateBlockIO returns the totals of the recursive breakdown when
\* that one is present and not empty, else those of the flat breakdown when
\* that one is present, else read 0, write 0.
C20_BlockIOSourceOrder ==
  derived # None =>
    LET bl == probe[1].blkio
        zero == Returned(Num(0), Num(0))
    IN derived[1].blockIO =
         IF bl = None THEN zero
         ELSE LET rec == bl[1].io_service_bytes_recursive
                  flat == bl[1].io_service_bytes
              IN IF rec # None /\ rec[1] # <<>> THEN processStatsArray(rec[1], zero)
                 ELSE IF flat # None THEN processStatsArray(flat[1], zero)
                 ELSE zero

\* C21: for every payload, each of the three derivation functions returns,
\* without throwing, and what it returns holds finite numbers only.
C21_DerivationTotal ==
  derived # None =>
    /\ ~derived[1].blockIO.threw
    /\ IsFinite(derived[1].blockIO.read) /\ IsFinite(derived[1].blockIO.write)
    /\ IsFinite(derived[1].cpu)
    /\ IsFinite(derived[1].memory.percent)

\* C22: a step in which the gather of a round settles with the temperature
\* query alone rejected, the history buffer being an array, appends the
\* round's record and publishes systemStats.
C22_TemperatureBestEffort ==
  [][\A r \in 1..Len(sys) :
       (/\ IsArray(systemHistory)
        /\ \E t \in ClockValues(now) : SystemSettles(r, {"cpuTemperature"}, t))
         => (sys'[r].pushed /\ sys'[r].emitted)]_vars

\* The stats requests of an invocation with listing list: one for each
\* running container, answered or not, none for any other.
RequestsMatch(list, req) ==
  /\ Len(req) = Len(list)
  /\ \A i \in 1..Len(list) : (req[i] = "none") <=> (list[i].State # "running")

\* C23: a published containers event holds one snapshot for each listed
\* container, in the listing's order and whatever its state; a stats request
\* has gone out for each running container and for no other; and a request
\* that was answered is not made again.
C23_OneSnapshotOneRequest ==
  /\ [](/\ lastContainers.published =>
             /\ Len(lastContainers.event) = Len(lastContainers.list)
             /\ \A i \in 1..Len(lastContainers.list) :
                  /\ lastContainers.event[i].id = lastContainers.list[i].Id
                  /\ lastContainers.event[i].state = lastContainers.list[i].State
             /\ RequestsMatch(lastContainers.list, lastContainers.req)
             /\ \A i \in 1..Len(lastContainers.req) : lastContainers.req[i] # "pending"
        /\ \A r \in 1..Len(cont) :
             cont[r].phase = "stats" => RequestsMatch(cont[r].list, cont[r].req))
  /\ [][\A r \in 1..Len(cont) :
          (cont[r].phase = "stats" /\ r <= Len(cont') /\ cont'[r].phase = "stats")
            => \A i \in 1..Len(cont[r].req) :
                 cont[r].req[i] # "pending" => cont'[r].req[i] = cont[r].req[i]]_vars

\* C23 witness: a published event of three snapshots, for two running
\* containers whose stats requests were answered, one with stats and one
\* with a failure, and for an exited container for which none went out.
C23_Witness ==
  /\ lastContainers.published
  /\ Len(lastContainers.event) = 3
  /\ lastContainers.req = <<"ok", "failed", "none">>
  /\ lastContainers.event[1].stats # None
  /\ lastContainers.event[3].state = "exited"

EightHours == 8 * 60 * 60 * 1000

\* C24: the capacity times the interval between two ticks is eight hours: a
\* buffer that the timer's ticks have filled spans eight hours.
C24_CapacityMatchesCadence ==
  running => FullBufferSpan = EightHours

\* The records of the systemStats events among events, in order.
RECURSIVE StatsRecords(_)
StatsRecords(events) ==
  IF events = <<>> THEN <<>>
  ELSE (IF Head(events).name = "systemStats" THEN <<Head(events).payload.stats>> ELSE <<>>)
         \o StatsRecords(Tail(events))

IsSuffix(a, b) == Len(a) <= Len(b) /\ a = LastN(b, Len(a))

\* C25: for a connected socket that was sent an array as initHistory, the
\* records of the systemStats events it received are the last records the
\* server appended, one for one, and the server's buffer is the end of the
\* initHistory payload followed by those records.
C25_ReplayThenLiveIsTheBuffer ==
  \A s \in connected :
    (inbox[s] # <<>> /\ inbox[s][1].name = "initHistory" /\ IsArray(inbox[s][1].payload))
      => LET live == StatsRecords(inbox[s])
         IN /\ IsSuffix(live, appended)
            /\ IsArray(systemHistory)
            /\ IsSuffix(systemHistory.items, inbox[s][1].payload.items \o live)

\* C25 witness: a socket connected while a tick's round was in flight, was
\* sent a history with records in it, and then received the records of that
\* round and of its own, the first of which evicted a record it was sent.
C25_Witness ==
  \E s \in connected :
    /\ Len(rounds) = 2 /\ rounds[1].origin = "tick" /\ rounds[2].origin = "connection"
    /\ Len(inbox[s]) = 3
    /\ inbox[s][1].name = "initHistory" /\ IsArray(inbox[s][1].payload)
    /\ Len(inbox[s][1].payload.items) = MAX_HISTORY
    /\ Len(StatsRecords(inbox[s])) = 2
    /\ Len(appended) = 2

Min(a, b) == IF a < b THEN a ELSE b

NonDecreasing(records) ==
  \A i, j \in 1..Len(records) : i < j => records[i].timestamp <= records[j].timestamp

\* C26: the records this run appended are in non-decreasing timestamp order,
\* and the history buffer ends with the last of them in that order, oldest
\* first.
C26_AppendedInTimestampOrder ==
  (running /\ IsArray(systemHistory)) =>
    LET kept == Min(Len(appended), Len(systemHistory.items))
    IN /\ NonDecreasing(appended)
       /\ LastN(systemHistory.items, kept) = LastN(appended, kept)

\* C26 witness: a tick's round and a connection's round, both in flight at
\* the connection, have each appended a record, the second with a later
\* timestamp than the first.
C26_Witness ==
  /\ running /\ IsArray(systemHistory)
  /\ Len(rounds) = 2 /\ rounds[1].origin = "tick" /\ rounds[2].origin = "connection"
  /\ Len(appended) = 2
  /\ appended[1].timestamp < appended[2].timestamp
  /\ \E s \in connected : Len(StatsRecords(inbox[s])) = 2

\* The buffer after the records are pushed onto items one by one, as the
\* server pushes them.
RECURSIVE PushAll(_, _)
PushAll(items, records) ==
  IF records = <<>> THEN items
  ELSE PushAll(PushHistory(items, Head(records)), Tail(records))

\* C27: a page that has handled every event delivered to it, the first an
\* initHistory with an array, holds that array followed by the record of
\* each systemStats event, once each, trimmed as the server trims its buffer.
C27_ClientHistoryFollowsEvents ==
  \A s \in connected :
    (/\ inbox[s] # <<>> /\ client[s].handled = Len(inbox[s])
     /\ inbox[s][1].name = "initHistory" /\ IsArray(inbox[s][1].payload))
      => client[s].systemHistory
           = JSArray(PushAll(inbox[s][1].payload.items, StatsRecords(inbox[s])))

====
